---- MODULE Spec2Model ----
(***************************************************************************)
(* Verification settlement of the EPR backend: access resolution, pricing, *)
(* the wallet debit and loyalty counters, the verification records, and    *)
(* the two other writers of the wallet (CreateBill, TopupWallet), the      *)
(* soft delete of a bill (DeleteBill), the content hasher and the two      *)
(* read endpoints of a bill (by id, by number).                            *)
(*                                                                         *)
(* Money is counted in units of 1/400 paisa (1/40000 rupee), so that       *)
(* amount * percentage * 0.5 * 1.5 is a whole number for every amount in   *)
(* whole paise; the wallet column is DECIMAL(10,2) and rounds to paise.    *)
(***************************************************************************)
EXTENDS Integers, Sequences, FiniteSets, TLC

VARIABLES cfg, wallet_balance, verification_count, free_verifications_earned,
          bills, verifications, worker, started, ledger, fin, fout

vars == <<cfg, wallet_balance, verification_count, free_verifications_earned,
          bills, verifications, worker, started, ledger, fin, fout>>

dbvars == <<wallet_balance, verification_count, free_verifications_earned,
            bills, verifications>>

-----------------------------------------------------------------------------
(* Bounds of the model *)

\* concurrent request workers
NumWorkers == 2
\* requests started in one behaviour
MaxRequests == 2
\* bill amounts tried by the pricing harness: k * 200 rupees, k in 1..MaxAmountSteps
MaxAmountSteps == 11

-----------------------------------------------------------------------------
(* Currency *)

Paise(p) == p * 400
Rupees(r) == Paise(r * 100)

\* a DECIMAL(10,2) column keeps whole paise (numeric rounding, half away from zero)
RoundToPaise(x) ==
    IF x >= 0 THEN ((x + 200) \div 400) * 400
              ELSE -(((-x + 200) \div 400) * 400)

-----------------------------------------------------------------------------
(* Configuration (config.Load) *)

DefaultVerificationPercentage == 1
DefaultLoyaltyFreeEveryN == 10

DefaultPricing ==
    [ BillGenerationFee      |-> Paise(50),
      VerificationMinFee     |-> Rupees(1),
      VerificationMaxFee     |-> Rupees(10),
      VerificationPercentage |-> DefaultVerificationPercentage,
      LoyaltyFreeEveryN      |-> DefaultLoyaltyFreeEveryN ]

-----------------------------------------------------------------------------
(* Enumerations of the models package *)

Nil == "nil"

RolePublic           == "public"
RoleInstitutionUser  == "institution_user"
RoleInstitutionAdmin == "institution_admin"
RoleVerifier         == "verifier"
RoleMasterAdmin      == "master_admin"
UserRoles == {RolePublic, RoleInstitutionUser, RoleInstitutionAdmin,
              RoleVerifier, RoleMasterAdmin}

AccessLevelPublic     == "public"
AccessLevelRestricted == "restricted"
AccessLevelGovernment == "government"
AccessLevelFinancial  == "financial"
AccessLevels == {AccessLevelPublic, AccessLevelRestricted,
                 AccessLevelGovernment, AccessLevelFinancial}

-----------------------------------------------------------------------------
(* Access resolver *)

\* the resolver without master_admin in its role tests
determineAccessLevel_NoAdmin(userRole, bill) ==
    IF bill.AccessLevel = AccessLevelPublic THEN "full"
    ELSE IF bill.AccessLevel = AccessLevelRestricted THEN
        IF userRole \in {RoleInstitutionUser, RoleInstitutionAdmin, RoleVerifier}
        THEN "full" ELSE "limited"
    ELSE IF bill.AccessLevel \in {AccessLevelGovernment, AccessLevelFinancial} THEN
        IF userRole = RoleVerifier THEN "full" ELSE "none"
    ELSE "limited"

determineAccessLevel(userRole, bill) ==
    IF bill.AccessLevel = AccessLevelPublic THEN "full"
    ELSE IF bill.AccessLevel = AccessLevelRestricted THEN
        IF userRole \in {RoleInstitutionUser, RoleInstitutionAdmin,
                         RoleVerifier, RoleMasterAdmin}
        THEN "full" ELSE "limited"
    ELSE IF bill.AccessLevel \in {AccessLevelGovernment, AccessLevelFinancial} THEN
        IF userRole \in {RoleVerifier, RoleMasterAdmin} THEN "full" ELSE "none"
    ELSE "limited"

-----------------------------------------------------------------------------
(* Pricing engine *)

\* calculatePrice after the loyalty lookup: fve is the requester's
\* free_verifications_earned as read by GetByID, or 0 when the requester is
\* anonymous or the read failed.  This variant leaves out the final clamp
\* (lines 161-167).
calculatePrice_NoFinalClamp(c, fve, billAmount, accessLevel) ==
    IF fve > 0 THEN [fee |-> 0, wasFree |-> TRUE, rule |-> "loyalty_free"]
    ELSE
    LET percentagePrice == (billAmount * c.VerificationPercentage) \div 200
        minFee == c.VerificationMinFee
        maxFee == c.VerificationMaxFee
        clamped == IF percentagePrice < minFee THEN minFee
                   ELSE IF percentagePrice > maxFee THEN maxFee
                   ELSE percentagePrice
        tiered == IF accessLevel = AccessLevelRestricted THEN (clamped * 3) \div 2
                  ELSE IF accessLevel \in {AccessLevelGovernment, AccessLevelFinancial}
                       THEN maxFee
                  ELSE clamped
    IN [fee |-> tiered, wasFree |-> FALSE, rule |-> "percentage_1_percent"]

\* the bound tests written with <= and >=
calculatePrice_InclusiveBounds(c, fve, billAmount, accessLevel) ==
    IF fve > 0 THEN [fee |-> 0, wasFree |-> TRUE, rule |-> "loyalty_free"]
    ELSE
    LET percentagePrice == (billAmount * c.VerificationPercentage) \div 200
        minFee == c.VerificationMinFee
        maxFee == c.VerificationMaxFee
        clamped == IF percentagePrice <= minFee THEN minFee
                   ELSE IF percentagePrice >= maxFee THEN maxFee
                   ELSE percentagePrice
        rule1 == IF percentagePrice <= minFee THEN "minimum_fee"
                 ELSE IF percentagePrice >= maxFee THEN "maximum_fee_capped"
                 ELSE "percentage_1_percent"
        tiered == IF accessLevel = AccessLevelRestricted THEN (clamped * 3) \div 2
                  ELSE IF accessLevel \in {AccessLevelGovernment, AccessLevelFinancial}
                       THEN maxFee
                  ELSE clamped
        rule2 == IF accessLevel = AccessLevelRestricted THEN "restricted_access_premium"
                 ELSE IF accessLevel \in {AccessLevelGovernment, AccessLevelFinancial}
                      THEN "government_financial_premium"
                 ELSE rule1
        low == IF tiered < minFee THEN minFee ELSE tiered
        final == IF low > maxFee THEN maxFee ELSE low
    IN [fee |-> final, wasFree |-> FALSE, rule |-> rule2]

calculatePrice(c, fve, billAmount, accessLevel) ==
    IF fve > 0 THEN [fee |-> 0, wasFree |-> TRUE, rule |-> "loyalty_free"]
    ELSE
    LET percentagePrice == (billAmount * c.VerificationPercentage) \div 200
        minFee == c.VerificationMinFee
        maxFee == c.VerificationMaxFee
        clamped == IF percentagePrice < minFee THEN minFee
                   ELSE IF percentagePrice > maxFee THEN maxFee
                   ELSE percentagePrice
        rule1 == IF percentagePrice < minFee THEN "minimum_fee"
                 ELSE IF percentagePrice > maxFee THEN "maximum_fee_capped"
                 ELSE "percentage_1_percent"
        tiered == IF accessLevel = AccessLevelRestricted THEN (clamped * 3) \div 2
                  ELSE IF accessLevel \in {AccessLevelGovernment, AccessLevelFinancial}
                       THEN maxFee
                  ELSE clamped
        rule2 == IF accessLevel = AccessLevelRestricted THEN "restricted_access_premium"
                 ELSE IF accessLevel \in {AccessLevelGovernment, AccessLevelFinancial}
                      THEN "government_financial_premium"
                 ELSE rule1
        low == IF tiered < minFee THEN minFee ELSE tiered
        final == IF low > maxFee THEN maxFee ELSE low
    IN [fee |-> final, wasFree |-> FALSE, rule |-> rule2]

-----------------------------------------------------------------------------
(* Documents: a JSON object is a function from keys to values; its encoding *)
(* lists the members in ascending key order (encoding/json sorts map keys). *)

KeyOrder == << "_metadata", "amount", "description", "generated_at",
               "generated_by", "gstin", "line_items", "organization",
               "recipient_name" >>

\* the order in which the runtime iterates over the keys of a map: any order,
\* and not the same from one iteration to the next
MapOrder == IF "order" \in DOMAIN fin THEN fin.order ELSE KeyOrder

\* for k := range m
MapRange(m) == SelectSeq(MapOrder, LAMBDA k : k \in DOMAIN m)

\* sort.Strings
sortStrings(keys) ==
    SelectSeq(KeyOrder, LAMBDA k : \E i \in DOMAIN keys : keys[i] = k)

\* the members written in the order the map hands them out
SortedKeys_Unsorted(m) == MapRange(m)

SortedKeys(m) == sortStrings(MapRange(m))

JsonMarshalFlat(m) ==
    LET ks == SortedKeys(m) IN [i \in 1..Len(ks) |-> <<ks[i], m[ks[i]]>>]

JsonMarshal(m) ==
    LET ks == SortedKeys(m)
    IN [i \in 1..Len(ks) |->
          <<ks[i], IF ks[i] = "_metadata" THEN JsonMarshalFlat(m[ks[i]])
                                          ELSE m[ks[i]]>>]

JsonUnmarshalFlat(s) ==
    [k \in {s[i][1] : i \in DOMAIN s} |->
        LET i == CHOOSE j \in DOMAIN s : s[j][1] = k IN s[i][2]]

JsonUnmarshal(s) ==
    [k \in {s[i][1] : i \in DOMAIN s} |->
        LET i == CHOOSE j \in DOMAIN s : s[j][1] = k
        IN IF k = "_metadata" THEN JsonUnmarshalFlat(s[i][2]) ELSE s[i][2]]

\* normalizeJSON rebuilds every map (a Go map has no key order of its own)
normalizeJSON(m) ==
    [k \in DOMAIN m |->
        IF k = "_metadata" THEN [j \in DOMAIN m[k] |-> m[k][j]] ELSE m[k]]

\* sha256 + hex: the digest stands for the bytes it was computed from
GenerateBillHash(data) == JsonMarshal(normalizeJSON(data))

VerifyBillHash(data, expectedHash) == GenerateBillHash(data) = expectedHash

-----------------------------------------------------------------------------
(* Users and bills *)

Users == {"u1", "u2"}
Workers == 1..NumWorkers

\* the columns of the users table that no operation of the model writes
UserRow ==
    [ u1 |-> [Role |-> RoleInstitutionUser, KYCStatus |-> "approved",
              OrganizationName |-> "Acme Clinic"],
      u2 |-> [Role |-> RolePublic, KYCStatus |-> "not_needed",
              OrganizationName |-> "Ravi"] ]

\* generate_bill_number's prefix for a bill type
BillPrefix(billType) ==
    CASE billType = "salary_slip"      -> "SAL"
      [] billType = "sales_invoice"    -> "INV"
      [] billType = "medical_bill"     -> "MED"
      [] billType = "purchase_invoice" -> "PUR"
      [] billType = "rental_agreement" -> "RNT"
      [] billType = "education_fee"    -> "EDU"
      [] billType = "rent_receipt"     -> "RCT"
      [] billType = "reimbursement"    -> "REI"
      [] billType = "loan_statement"   -> "LON"
      [] billType = "tax_receipt"      -> "TAX"
      [] billType = "insurance_policy" -> "INS"
      [] OTHER                         -> "OTH"

\* the bill object CreateBill builds (lines 71-107) for user u at time now
NewBill(u, req, billNumber, now) ==
    LET enriched == [k \in DOMAIN req.BillData \cup {"_metadata"} |->
                        IF k = "_metadata"
                        THEN [ generated_at |-> now,
                               generated_by |-> u,
                               organization |-> UserRow[u].OrganizationName,
                               gstin        |-> req.IssuerGSTIN ]
                        ELSE req.BillData[k]]
    IN [ BillNumber  |-> billNumber,
         BillType    |-> req.BillType,
         AccessLevel |-> req.AccessLevel,
         IssuerID    |-> u,
         IssuerName  |-> UserRow[u].OrganizationName,
         BillData    |-> JsonMarshal(enriched),
         Amount      |-> req.Amount,
         Currency    |-> "INR",
         DataHash    |-> GenerateBillHash(enriched),
         IsDeleted   |-> FALSE ]

PayloadA == [recipient_name |-> "Asha", description |-> "consulting"]
PayloadB == [recipient_name |-> "Binu", amount |-> "1000.00"]

\* bills issued by u1 before the behaviour starts, one per access tier that
\* resolves differently
InitialBills ==
    << NewBill("u1", [BillType |-> "sales_invoice", AccessLevel |-> AccessLevelPublic,
                      IssuerGSTIN |-> "29ABCDE1234F1Z5", Amount |-> Rupees(1000),
                      BillData |-> PayloadB], <<"INV", 1>>, -3),
       NewBill("u1", [BillType |-> "sales_invoice", AccessLevel |-> AccessLevelRestricted,
                      IssuerGSTIN |-> "29ABCDE1234F1Z5", Amount |-> Rupees(1000),
                      BillData |-> PayloadA], <<"INV", 2>>, -2),
       NewBill("u1", [BillType |-> "salary_slip", AccessLevel |-> AccessLevelGovernment,
                      IssuerGSTIN |-> "29ABCDE1234F1Z5", Amount |-> Rupees(100),
                      BillData |-> PayloadA], <<"SAL", 1>>, -1) >>

MissingNumber == <<"INV", 0>>

NoBill == [BillNumber |-> MissingNumber, AccessLevel |-> "", IssuerID |-> Nil]

\* SELECT * FROM bills WHERE bill_number = $1 AND is_deleted = false
GetByBillNumber(tbl, billNumber) ==
    {i \in DOMAIN tbl : tbl[i].BillNumber = billNumber /\ ~tbl[i].IsDeleted}

-----------------------------------------------------------------------------
(* Response and audit record of a verification *)

\* the limited branch handing out the stored payload
buildVerificationResponse_LeakLimited(bill, accessLevel, fee) ==
    [ Success    |-> TRUE,
      BillNumber |-> bill.BillNumber,
      Status     |-> IF accessLevel = "none" THEN "restricted" ELSE "valid",
      IssuerName |-> bill.IssuerName,
      BillType   |-> bill.BillType,
      Message    |-> IF accessLevel = "none" THEN "requires_verifier_access"
                                             ELSE "registered_and_verified",
      Details    |-> IF accessLevel \in {"full", "limited"}
                     THEN JsonUnmarshal(bill.BillData)
                     ELSE << >>,
      Fee        |-> fee ]

buildVerificationResponse(bill, accessLevel, fee) ==
    [ Success    |-> TRUE,
      BillNumber |-> bill.BillNumber,
      Status     |-> IF accessLevel = "none" THEN "restricted" ELSE "valid",
      IssuerName |-> bill.IssuerName,
      BillType   |-> bill.BillType,
      Message    |-> IF accessLevel = "none" THEN "requires_verifier_access"
                                             ELSE "registered_and_verified",
      Details    |-> IF accessLevel = "full" THEN JsonUnmarshal(bill.BillData)
                     ELSE IF accessLevel = "limited"
                          THEN [amount |-> bill.Amount, currency |-> bill.Currency]
                     ELSE << >>,
      Fee        |-> fee ]

\* a miss reported without the minimum fee
NotFoundResponse_NoFee(c, billNumber) ==
    [ Success    |-> TRUE,
      BillNumber |-> billNumber,
      Status     |-> "invalid",
      IssuerName |-> "",
      BillType   |-> "",
      Message    |-> "not_registered_may_be_fake",
      Details    |-> << >>,
      Fee        |-> 0 ]

\* the response of a lookup miss (lines 51-57)
NotFoundResponse(c, billNumber) ==
    [ Success    |-> TRUE,
      BillNumber |-> billNumber,
      Status     |-> "invalid",
      IssuerName |-> "",
      BillType   |-> "",
      Message    |-> "not_registered_may_be_fake",
      Details    |-> << >>,
      Fee        |-> c.VerificationMinFee ]

getRevealedFields(accessLevel) ==
    CASE accessLevel = "full" ->
           [fields_shown |-> <<"all">>, fields_hidden |-> << >>]
      [] accessLevel = "limited" ->
           [fields_shown |-> <<"bill_number", "issuer_name", "issue_date",
                               "bill_type", "amount">>,
            fields_hidden |-> <<"recipient_details", "line_items", "sensitive_data">>]
      [] accessLevel = "none" ->
           [fields_shown |-> <<"bill_number", "issuer_name", "bill_type">>,
            fields_hidden |-> <<"all_details">>]
      [] OTHER -> [fields_shown |-> << >>, fields_hidden |-> << >>]

\* the row recordVerification inserts; userRead tells whether its GetByID
\* returned the user
VerificationRow(userID, billID, billNumber, fee, wasFree, status, dataRevealed, userRead) ==
    [ BillID             |-> billID,
      BillNumber         |-> billNumber,
      VerifierID         |-> userID,
      AccessLevelUsed    |->
          IF userID # Nil /\ userRead
          THEN IF UserRow[userID].Role = RoleVerifier THEN AccessLevelGovernment
               ELSE IF UserRow[userID].Role \in {RoleInstitutionUser, RoleInstitutionAdmin}
                    THEN AccessLevelRestricted
               ELSE AccessLevelPublic
          ELSE AccessLevelPublic,
      DataRevealed       |-> dataRevealed,
      AmountCharged      |-> RoundToPaise(fee),
      WasFree            |-> wasFree,
      PricingRuleApplied |-> "standard",
      VerificationStatus |-> status ]

NoRevealed == [fields_shown |-> << >>, fields_hidden |-> << >>]

-----------------------------------------------------------------------------
(* Request workers *)

NoReq == [BillType |-> "", AccessLevel |-> "", IssuerGSTIN |-> "", Amount |-> 0,
          BillData |-> << >>]

NoResult == [kind |-> "none", error |-> "", response |-> << >>]

IdleWorker ==
    [ pc          |-> "idle",
      op          |-> "none",
      userID      |-> Nil,
      role        |-> RolePublic,
      billNumber  |-> MissingNumber,
      billID      |-> 0,
      bill        |-> NoBill,
      accessLevel |-> "",
      fee         |-> 0,
      wasFree     |-> FALSE,
      rule        |-> "",
      balance     |-> 0,
      newBalance  |-> 0,
      amount      |-> 0,
      req         |-> NoReq,
      now         |-> 0,
      lookup      |-> "",
      wrote       |-> {},
      recorderCalls |-> 0,
      recordAt    |-> 0,
      result      |-> NoResult ]

\* a worker that can take the next request; of the workers that have served
\* none yet, the lowest takes it (which worker serves a request changes nothing)
Free(p) ==
    /\ worker[p].pc \in {"idle", "done"}
    /\ started < MaxRequests
    /\ \A q \in Workers : q < p => worker[q].pc # "idle"

Ok(resp) == [kind |-> "ok", error |-> "", response |-> resp]
Err(msg) == [kind |-> "error", error |-> msg, response |-> << >>]

\* the role the handler passes: the token's role, public when anonymous
RoleOf(u) == IF u = Nil THEN RolePublic ELSE UserRow[u].Role

Bump(f, u, d) == [f EXCEPT ![u] = @ + d]

-----------------------------------------------------------------------------
(* User repository *)

\* CHECK (wallet_balance >= 0) of the users table
WalletCheck(b) == b >= 0

\* UPDATE users SET wallet_balance = wallet_balance - $1: a debit statement
\* run against a column that carries no constraint
UpdateWalletBalance_Debit(w, u, newBalance) ==
    [ok |-> TRUE, wallet |-> [w EXCEPT ![u] = @ - RoundToPaise(newBalance)]]

\* UPDATE users SET wallet_balance = $1: the statement without its WHERE
UpdateWalletBalance_AllRows(w, u, newBalance) ==
    LET stored == RoundToPaise(newBalance)
    IN [ok |-> WalletCheck(stored), wallet |-> [x \in DOMAIN w |-> stored]]

\* UPDATE users SET wallet_balance = $1 WHERE id = $2; the statement fails
\* when the stored value would break the column's constraint
UpdateWalletBalance(w, u, newBalance) ==
    LET stored == RoundToPaise(newBalance)
    IN [ok |-> WalletCheck(stored), wallet |-> [w EXCEPT ![u] = stored]]

\* the transaction of IncrementVerificationCount, committed
IncrementVerificationCount(cnt, fve, u) ==
    LET newCount == cnt[u] + 1
        earnedFree == newCount % 10 = 0
    IN [ count      |-> [cnt EXCEPT ![u] = newCount],
         free       |-> IF earnedFree THEN [fve EXCEPT ![u] = @ + 1] ELSE fve,
         earnedFree |-> earnedFree ]

-----------------------------------------------------------------------------
(* VerificationService.VerifyBill, one action per database round trip *)

StartVerify(p, u, n) ==
    /\ Free(p)
    /\ started' = started + 1
    /\ worker' = [worker EXCEPT ![p] =
                    [IdleWorker EXCEPT !.pc = "v_lookup", !.op = "verify",
                                       !.userID = u, !.role = RoleOf(u),
                                       !.billNumber = n]]
    /\ UNCHANGED <<cfg, dbvars, ledger, fin, fout>>

\* the miss branch calling the recorder whoever the caller is
VerifyLookup_RecordAnonymous(p) ==
    LET w == worker[p] IN
    /\ w.pc = "v_lookup"
    /\ \E dbOk \in BOOLEAN :
         LET hits == IF dbOk THEN GetByBillNumber(bills, w.billNumber) ELSE {} IN
         IF hits = {}
         THEN worker' = [worker EXCEPT ![p] =
                  [w EXCEPT !.fee = cfg.VerificationMinFee,
                            !.lookup = IF dbOk THEN "absent" ELSE "failed",
                            !.result = Ok(NotFoundResponse(cfg, w.billNumber)),
                            !.pc = "v_record_miss"]]
         ELSE \E i \in hits :
              worker' = [worker EXCEPT ![p] =
                  [w EXCEPT !.bill = bills[i] @@ [ID |-> i],
                            !.lookup = "hit",
                            !.accessLevel = determineAccessLevel(w.role, bills[i]),
                            !.pc = "v_price"]]
    /\ UNCHANGED <<cfg, dbvars, started, ledger, fin, fout>>

\* lines 47-68: the lookup; any error of GetByBillNumber takes the miss branch
VerifyLookup(p) ==
    LET w == worker[p] IN
    /\ w.pc = "v_lookup"
    /\ \E dbOk \in BOOLEAN :
         LET hits == IF dbOk THEN GetByBillNumber(bills, w.billNumber) ELSE {} IN
         IF hits = {}
         THEN worker' = [worker EXCEPT ![p] =
                  [w EXCEPT !.fee = cfg.VerificationMinFee,
                            !.lookup = IF dbOk THEN "absent" ELSE "failed",
                            !.result = Ok(NotFoundResponse(cfg, w.billNumber)),
                            !.pc = IF w.userID # Nil THEN "v_record_miss" ELSE "done"]]
         ELSE \E i \in hits :
              worker' = [worker EXCEPT ![p] =
                  [w EXCEPT !.bill = bills[i] @@ [ID |-> i],
                            !.lookup = "hit",
                            !.accessLevel = determineAccessLevel(w.role, bills[i]),
                            !.pc = "v_price"]]
    /\ UNCHANGED <<cfg, dbvars, started, ledger, fin, fout>>

\* the audit row of a miss carrying the status of the response
VerifyRecordMiss_Invalid(p) ==
    LET w == worker[p] IN
    /\ w.pc = "v_record_miss"
    /\ \E userRead \in BOOLEAN, inserted \in BOOLEAN :
         /\ verifications' =
               IF inserted
               THEN Append(verifications,
                           VerificationRow(w.userID, 0, w.billNumber, w.fee, FALSE,
                                           "invalid", NoRevealed, userRead))
               ELSE verifications
         /\ worker' = [worker EXCEPT ![p] =
               [w EXCEPT !.pc = "done",
                         !.recorderCalls = @ + 1,
                         !.wrote = IF inserted THEN @ \cup {"record"} ELSE @,
                         !.recordAt = IF inserted THEN Len(verifications) + 1 ELSE 0]]
    /\ ledger' = [ledger EXCEPT !.completed = Bump(@, w.userID, 1)]
    /\ UNCHANGED <<cfg, wallet_balance, verification_count,
                   free_verifications_earned, bills, started, fin, fout>>

\* lines 59-64: the audit row of a miss by an authenticated requester
VerifyRecordMiss(p) ==
    LET w == worker[p] IN
    /\ w.pc = "v_record_miss"
    /\ \E userRead \in BOOLEAN, inserted \in BOOLEAN :
         /\ verifications' =
               IF inserted
               THEN Append(verifications,
                           VerificationRow(w.userID, 0, w.billNumber, w.fee, FALSE,
                                           "not_found", NoRevealed, userRead))
               ELSE verifications
         /\ worker' = [worker EXCEPT ![p] =
               [w EXCEPT !.pc = "done",
                         !.recorderCalls = @ + 1,
                         !.wrote = IF inserted THEN @ \cup {"record"} ELSE @,
                         !.recordAt = IF inserted THEN Len(verifications) + 1 ELSE 0]]
    /\ ledger' = [ledger EXCEPT !.completed = Bump(@, w.userID, 1)]
    /\ UNCHANGED <<cfg, wallet_balance, verification_count,
                   free_verifications_earned, bills, started, fin, fout>>

\* lines 70-71 and 121-170: pricing, with the loyalty read of the requester's
\* row; when the read fails the call is priced as one without credits
VerifyPrice(p) ==
    LET w == worker[p] IN
    /\ w.pc = "v_price"
    /\ \E userRead \in BOOLEAN :
         LET fve == IF w.userID # Nil /\ userRead
                    THEN free_verifications_earned[w.userID] ELSE 0
             price == calculatePrice(cfg, fve, w.bill.Amount, w.bill.AccessLevel)
         IN worker' = [worker EXCEPT ![p] =
                [w EXCEPT !.fee = price.fee, !.wasFree = price.wasFree,
                          !.rule = price.rule,
                          !.pc = IF w.userID # Nil /\ ~price.wasFree
                                 THEN "v_getuser" ELSE "v_record"]]
    /\ UNCHANGED <<cfg, dbvars, started, ledger, fin, fout>>

\* the funds test turning away a balance equal to the fee
VerifyGetUser_RejectEqual(p) ==
    LET w == worker[p] IN
    /\ w.pc = "v_getuser"
    /\ \E userRead \in BOOLEAN :
         worker' = [worker EXCEPT ![p] =
            IF ~userRead
            THEN [w EXCEPT !.pc = "done", !.result = Err("failed to get user")]
            ELSE IF wallet_balance[w.userID] <= w.fee
            THEN [w EXCEPT !.pc = "done", !.balance = wallet_balance[w.userID],
                           !.result = Err("insufficient wallet balance")]
            ELSE [w EXCEPT !.pc = "v_deduct", !.balance = wallet_balance[w.userID],
                           !.newBalance = wallet_balance[w.userID] - w.fee]]
    /\ UNCHANGED <<cfg, dbvars, started, ledger, fin, fout>>

\* lines 75-85: the balance read and the funds test
VerifyGetUser(p) ==
    LET w == worker[p] IN
    /\ w.pc = "v_getuser"
    /\ \E userRead \in BOOLEAN :
         worker' = [worker EXCEPT ![p] =
            IF ~userRead
            THEN [w EXCEPT !.pc = "done", !.result = Err("failed to get user")]
            ELSE IF wallet_balance[w.userID] < w.fee
            THEN [w EXCEPT !.pc = "done", !.balance = wallet_balance[w.userID],
                           !.result = Err("insufficient wallet balance")]
            ELSE [w EXCEPT !.pc = "v_deduct", !.balance = wallet_balance[w.userID],
                           !.newBalance = wallet_balance[w.userID] - w.fee]]
    /\ UNCHANGED <<cfg, dbvars, started, ledger, fin, fout>>

\* lines 86-88: the debit, written as an absolute balance
VerifyDeduct(p) ==
    LET w == worker[p] IN
    /\ w.pc = "v_deduct"
    /\ \E dbOk \in BOOLEAN :
         IF dbOk /\ UpdateWalletBalance(wallet_balance, w.userID, w.newBalance).ok
         THEN /\ wallet_balance' = UpdateWalletBalance(wallet_balance, w.userID, w.newBalance).wallet
              /\ worker' = [worker EXCEPT ![p] =
                    [w EXCEPT !.pc = "v_incr", !.wrote = @ \cup {"wallet"}]]
              /\ ledger' = [ledger EXCEPT !.verifyFees = Bump(@, w.userID, w.fee),
                                          !.settled = Bump(@, w.userID, 1)]
         ELSE /\ worker' = [worker EXCEPT ![p] =
                    [w EXCEPT !.pc = "done",
                              !.result = Err("failed to deduct wallet balance")]]
              /\ UNCHANGED <<wallet_balance, ledger>>
    /\ UNCHANGED <<cfg, verification_count, free_verifications_earned, bills,
                   verifications, started, fin, fout>>

\* lines 90-98: the counter and the loyalty credit; a failure is only logged
VerifyIncrement(p) ==
    LET w == worker[p] IN
    /\ w.pc = "v_incr"
    /\ \E dbOk \in BOOLEAN :
         IF dbOk
         THEN LET r == IncrementVerificationCount(verification_count,
                                                  free_verifications_earned, w.userID)
              IN /\ verification_count' = r.count
                 /\ free_verifications_earned' = r.free
                 /\ worker' = [worker EXCEPT ![p] =
                       [w EXCEPT !.pc = "v_record",
                                 !.wrote = @ \cup {"count"}
                                             \cup (IF r.earnedFree THEN {"credit"} ELSE {})]]
         ELSE /\ UNCHANGED <<verification_count, free_verifications_earned>>
              /\ worker' = [worker EXCEPT ![p] = [w EXCEPT !.pc = "v_record"]]
    /\ UNCHANGED <<cfg, wallet_balance, bills, verifications, started, ledger, fin, fout>>

\* a failed insert of the audit row failing the call
VerifyRecord_FailOnInsert(p) ==
    LET w == worker[p]
        response == buildVerificationResponse(w.bill, w.accessLevel, w.fee)
        status == IF w.accessLevel = "none" THEN "restricted" ELSE "valid"
        final == IF w.accessLevel = "none"
                 THEN [response EXCEPT !.Status = "restricted",
                                       !.Message = "requires_institutional_access"]
                 ELSE response
    IN
    /\ w.pc = "v_record"
    /\ IF w.userID # Nil
       THEN /\ \E userRead \in BOOLEAN, inserted \in BOOLEAN :
                 /\ verifications' =
                       IF inserted
                       THEN Append(verifications,
                                   VerificationRow(w.userID, w.bill.ID, w.billNumber, w.fee,
                                                   w.wasFree, status,
                                                   getRevealedFields(w.accessLevel), userRead))
                       ELSE verifications
                 /\ worker' = [worker EXCEPT ![p] =
                       [w EXCEPT !.pc = "done",
                                 !.result = IF inserted THEN Ok(final)
                                            ELSE Err("failed to record verification"),
                                 !.recorderCalls = @ + 1,
                                 !.wrote = IF inserted THEN @ \cup {"record"} ELSE @,
                         !.recordAt = IF inserted THEN Len(verifications) + 1 ELSE 0]]
            /\ ledger' = [ledger EXCEPT !.completed = Bump(@, w.userID, 1),
                                        !.freeUsed = Bump(@, w.userID,
                                                          IF w.wasFree THEN 1 ELSE 0)]
       ELSE /\ UNCHANGED <<verifications, ledger>>
            /\ worker' = [worker EXCEPT ![p] =
                  [w EXCEPT !.pc = "done", !.result = Ok(final)]]
    /\ UNCHANGED <<cfg, wallet_balance, verification_count,
                   free_verifications_earned, bills, started, fin, fout>>

\* lines 101-117: the response, and the audit row of an authenticated requester
VerifyRecord(p) ==
    LET w == worker[p]
        response == buildVerificationResponse(w.bill, w.accessLevel, w.fee)
        status == IF w.accessLevel = "none" THEN "restricted" ELSE "valid"
        final == IF w.accessLevel = "none"
                 THEN [response EXCEPT !.Status = "restricted",
                                       !.Message = "requires_institutional_access"]
                 ELSE response
    IN
    /\ w.pc = "v_record"
    /\ IF w.userID # Nil
       THEN /\ \E userRead \in BOOLEAN, inserted \in BOOLEAN :
                 /\ verifications' =
                       IF inserted
                       THEN Append(verifications,
                                   VerificationRow(w.userID, w.bill.ID, w.billNumber, w.fee,
                                                   w.wasFree, status,
                                                   getRevealedFields(w.accessLevel), userRead))
                       ELSE verifications
                 /\ worker' = [worker EXCEPT ![p] =
                       [w EXCEPT !.pc = "done", !.result = Ok(final),
                                 !.recorderCalls = @ + 1,
                                 !.wrote = IF inserted THEN @ \cup {"record"} ELSE @,
                         !.recordAt = IF inserted THEN Len(verifications) + 1 ELSE 0]]
            /\ ledger' = [ledger EXCEPT !.completed = Bump(@, w.userID, 1),
                                        !.freeUsed = Bump(@, w.userID,
                                                          IF w.wasFree THEN 1 ELSE 0)]
       ELSE /\ UNCHANGED <<verifications, ledger>>
            /\ worker' = [worker EXCEPT ![p] =
                  [w EXCEPT !.pc = "done", !.result = Ok(final)]]
    /\ UNCHANGED <<cfg, wallet_balance, verification_count,
                   free_verifications_earned, bills, started, fin, fout>>

-----------------------------------------------------------------------------
(* BillService.CreateBill *)

Max(S) == CHOOSE x \in S : \A y \in S : y <= x

\* generate_bill_number: one more than the largest number read from positions
\* 12 to 15 of the bill numbers of this prefix, year and month (a bill number
\* is prefix, then year and month, then six digits: 15 characters)
GenerateBillNumber(tbl, billType) ==
    LET prefix == BillPrefix(billType)
        seqs == {tbl[i].BillNumber[2] % 10000 :
                    i \in {j \in DOMAIN tbl : tbl[j].BillNumber[1] = prefix}}
    IN <<prefix, Max(seqs \cup {0}) + 1>>

\* UNIQUE (bill_number), UNIQUE (data_hash)
BillInsertable(tbl, bill) ==
    \A i \in DOMAIN tbl : /\ tbl[i].BillNumber # bill.BillNumber
                          /\ tbl[i].DataHash # bill.DataHash

StartCreate(p, u, req) ==
    /\ Free(p)
    /\ started' = started + 1
    /\ worker' = [worker EXCEPT ![p] =
                    [IdleWorker EXCEPT !.pc = "c_getuser", !.op = "create",
                                       !.userID = u, !.role = RoleOf(u),
                                       !.req = req, !.now = started + 1]]
    /\ UNCHANGED <<cfg, dbvars, ledger, fin, fout>>

\* lines 38-57: the user read, the role and KYC tests, the funds test
CreateGetUser(p) ==
    LET w == worker[p]
        row == UserRow[w.userID]
    IN
    /\ w.pc = "c_getuser"
    /\ \E userRead \in BOOLEAN :
         worker' = [worker EXCEPT ![p] =
            IF ~userRead
            THEN [w EXCEPT !.pc = "done", !.result = Err("failed to get user")]
            ELSE IF row.Role \notin {RoleInstitutionUser, RoleInstitutionAdmin,
                                     RoleMasterAdmin}
            THEN [w EXCEPT !.pc = "done",
                           !.result = Err("only institutions can generate bills")]
            ELSE IF row.Role \in {RoleInstitutionUser, RoleInstitutionAdmin}
                    /\ row.KYCStatus # "approved"
            THEN [w EXCEPT !.pc = "done", !.result = Err("KYC verification required")]
            ELSE IF wallet_balance[w.userID] < cfg.BillGenerationFee
            THEN [w EXCEPT !.pc = "done", !.balance = wallet_balance[w.userID],
                           !.result = Err("insufficient wallet balance")]
            ELSE [w EXCEPT !.pc = "c_number", !.balance = wallet_balance[w.userID],
                           !.fee = cfg.BillGenerationFee]]
    /\ UNCHANGED <<cfg, dbvars, started, ledger, fin, fout>>

\* lines 59-107: the bill number, the issue date, the payload and its hash
CreateNumber(p) ==
    LET w == worker[p] IN
    /\ w.pc = "c_number"
    /\ \E dbOk \in BOOLEAN :
         worker' = [worker EXCEPT ![p] =
            IF ~dbOk
            THEN [w EXCEPT !.pc = "done",
                           !.result = Err("failed to generate bill number")]
            ELSE IF ~w.req.IssueDateValid
            THEN [w EXCEPT !.pc = "done", !.result = Err("invalid date format")]
            ELSE [w EXCEPT !.pc = "c_insert",
                           !.billNumber = GenerateBillNumber(bills, w.req.BillType),
                           !.bill = NewBill(w.userID, w.req,
                                            GenerateBillNumber(bills, w.req.BillType),
                                            w.now)]]
    /\ UNCHANGED <<cfg, dbvars, started, ledger, fin, fout>>

\* lines 113-116: the insert
CreateInsert(p) ==
    LET w == worker[p] IN
    /\ w.pc = "c_insert"
    /\ \E dbOk \in BOOLEAN :
         IF dbOk /\ BillInsertable(bills, w.bill)
         THEN /\ bills' = Append(bills, w.bill)
              /\ worker' = [worker EXCEPT ![p] = [w EXCEPT !.pc = "c_deduct"]]
         ELSE /\ worker' = [worker EXCEPT ![p] =
                    [w EXCEPT !.pc = "done", !.result = Err("failed to save bill")]]
              /\ UNCHANGED bills
    /\ UNCHANGED <<cfg, wallet_balance, verification_count,
                   free_verifications_earned, verifications, started, ledger, fin, fout>>

\* lines 118-128: the generation fee, taken from the balance read at the start
CreateDeduct(p) ==
    LET w == worker[p]
        newBalance == w.balance - w.fee
    IN
    /\ w.pc = "c_deduct"
    /\ \E dbOk \in BOOLEAN :
         IF dbOk /\ UpdateWalletBalance(wallet_balance, w.userID, newBalance).ok
         THEN /\ wallet_balance' = UpdateWalletBalance(wallet_balance, w.userID, newBalance).wallet
              /\ worker' = [worker EXCEPT ![p] =
                    [w EXCEPT !.pc = "done", !.newBalance = newBalance,
                              !.result = Ok(<< >>)]]
              /\ ledger' = [ledger EXCEPT !.genFees = Bump(@, w.userID, w.fee)]
         ELSE /\ worker' = [worker EXCEPT ![p] =
                    [w EXCEPT !.pc = "done",
                              !.result = Err("failed to deduct wallet balance")]]
              /\ UNCHANGED <<wallet_balance, ledger>>
    /\ UNCHANGED <<cfg, verification_count, free_verifications_earned, bills,
                   verifications, started, fin, fout>>

-----------------------------------------------------------------------------
(* BillService.DeleteBill *)

\* SELECT * FROM bills WHERE id = $1 AND is_deleted = false
GetByID(tbl, id) == {i \in DOMAIN tbl : i = id /\ ~tbl[i].IsDeleted}

\* a DELETE of the row; the verifications that reference it follow it
\* (bill_id ... ON DELETE CASCADE)
SoftDelete_Cascade(tbl, recs, id) ==
    [ rows  |-> Cardinality({i \in DOMAIN tbl : i = id}),
      bills |-> [i \in DOMAIN tbl |->
                    IF i = id THEN [tbl[i] EXCEPT !.IsDeleted = TRUE] ELSE tbl[i]],
      verifications |-> SelectSeq(recs, LAMBDA r : r.BillID # id) ]

\* UPDATE bills SET is_deleted = true, ... WHERE id = $1; the verifications
\* table is not touched
SoftDelete(tbl, recs, id) ==
    [ rows  |-> Cardinality({i \in DOMAIN tbl : i = id}),
      bills |-> [i \in DOMAIN tbl |->
                    IF i = id THEN [tbl[i] EXCEPT !.IsDeleted = TRUE] ELSE tbl[i]],
      verifications |-> recs ]

StartDelete(p, u, id) ==
    /\ Free(p)
    /\ started' = started + 1
    /\ worker' = [worker EXCEPT ![p] =
                    [IdleWorker EXCEPT !.pc = "d_get", !.op = "delete",
                                       !.userID = u, !.role = RoleOf(u),
                                       !.billID = id]]
    /\ UNCHANGED <<cfg, dbvars, ledger, fin, fout>>

\* lines 176-185: the bill read and the ownership test
DeleteGet(p) ==
    LET w == worker[p] IN
    /\ w.pc = "d_get"
    /\ \E dbOk \in BOOLEAN :
         worker' = [worker EXCEPT ![p] =
            IF ~dbOk
            THEN [w EXCEPT !.pc = "done", !.result = Err("failed to get bill")]
            ELSE IF GetByID(bills, w.billID) = {}
            THEN [w EXCEPT !.pc = "done", !.result = Err("bill not found")]
            ELSE IF bills[w.billID].IssuerID # w.userID
            THEN [w EXCEPT !.pc = "done",
                           !.result = Err("you can only delete your own bills")]
            ELSE [w EXCEPT !.pc = "d_soft"]]
    /\ UNCHANGED <<cfg, dbvars, started, ledger, fin, fout>>

\* line 191: the soft delete
DeleteSoft(p) ==
    LET w == worker[p]
        r == SoftDelete(bills, verifications, w.billID)
    IN
    /\ w.pc = "d_soft"
    /\ \E dbOk \in BOOLEAN :
         IF dbOk /\ r.rows > 0
         THEN /\ bills' = r.bills
              /\ verifications' = r.verifications
              /\ worker' = [worker EXCEPT ![p] =
                    [w EXCEPT !.pc = "done", !.result = Ok(<< >>)]]
         ELSE /\ worker' = [worker EXCEPT ![p] =
                    [w EXCEPT !.pc = "done",
                              !.result = Err(IF dbOk THEN "bill not found"
                                                     ELSE "failed to delete bill")]]
              /\ UNCHANGED <<bills, verifications>>
    /\ UNCHANGED <<cfg, wallet_balance, verification_count,
                   free_verifications_earned, started, ledger, fin, fout>>

-----------------------------------------------------------------------------
(* AuthHandler.TopupWallet *)

StartTopup(p, u, a) ==
    /\ Free(p)
    /\ started' = started + 1
    /\ worker' = [worker EXCEPT ![p] =
                    [IdleWorker EXCEPT !.pc = "t_getuser", !.op = "topup",
                                       !.userID = u, !.role = RoleOf(u), !.amount = a]]
    /\ UNCHANGED <<cfg, dbvars, ledger, fin, fout>>

\* lines 279-286
TopupGetUser(p) ==
    LET w == worker[p] IN
    /\ w.pc = "t_getuser"
    /\ \E userRead \in BOOLEAN :
         worker' = [worker EXCEPT ![p] =
            IF ~userRead
            THEN [w EXCEPT !.pc = "done", !.result = Err("User not found")]
            ELSE [w EXCEPT !.pc = "t_update", !.balance = wallet_balance[w.userID],
                           !.newBalance = wallet_balance[w.userID] + w.amount]]
    /\ UNCHANGED <<cfg, dbvars, started, ledger, fin, fout>>

\* lines 287-295
TopupUpdate(p) ==
    LET w == worker[p] IN
    /\ w.pc = "t_update"
    /\ \E dbOk \in BOOLEAN :
         IF dbOk /\ UpdateWalletBalance(wallet_balance, w.userID, w.newBalance).ok
         THEN /\ wallet_balance' = UpdateWalletBalance(wallet_balance, w.userID, w.newBalance).wallet
              /\ worker' = [worker EXCEPT ![p] =
                    [w EXCEPT !.pc = "done", !.result = Ok(<< >>)]]
              /\ ledger' = [ledger EXCEPT !.topups = Bump(@, w.userID, w.amount)]
         ELSE /\ worker' = [worker EXCEPT ![p] =
                    [w EXCEPT !.pc = "done", !.result = Err("Failed to update wallet")]]
              /\ UNCHANGED <<wallet_balance, ledger>>
    /\ UNCHANGED <<cfg, verification_count, free_verifications_earned, bills,
                   verifications, started, fin, fout>>

-----------------------------------------------------------------------------
(* The system: concurrent requests against one database *)

NoCall == [fn |-> "none"]

Zero == [u \in Users |-> 0]

\* configurations the deployment may load
SystemConfigs == {[DefaultPricing EXCEPT !.LoyaltyFreeEveryN = n] :
                     n \in {DefaultLoyaltyFreeEveryN, 3}}

\* wallet balances a user may hold when the behaviour starts
InitBalances ==
    [ u1 |-> {0, Rupees(12)},
      u2 |-> {0, Rupees(10), Rupees(12)} ]

\* <<verification_count, free_verifications_earned>> a user may have reached
InitLoyalty ==
    [ u1 |-> {<<0, 0>>},
      u2 |-> {<<0, 0>>, <<9, 0>>, <<10, 1>>} ]

\* one choice for every user, each from its own set
PerUser(S) ==
    {f \in [Users -> UNION {S[u] : u \in Users}] : \A u \in Users : f[u] \in S[u]}

CreateRequests ==
    { [BillType |-> "sales_invoice", AccessLevel |-> AccessLevelFinancial,
       IssuerGSTIN |-> "29ABCDE1234F1Z5", Amount |-> Rupees(400),
       BillData |-> PayloadA, IssueDateValid |-> v] : v \in BOOLEAN }

TopupAmounts == {Rupees(10)}

VerifyTargets == {bills[i].BillNumber : i \in DOMAIN bills} \cup {MissingNumber}

\* the bill a delete request names
DeleteTargets == {i \in DOMAIN bills : bills[i].AccessLevel = AccessLevelGovernment}

Init ==
    /\ fin = NoCall
    /\ fout = NoCall
    /\ cfg \in SystemConfigs
    /\ wallet_balance \in PerUser(InitBalances)
    /\ \E l \in PerUser(InitLoyalty) :
         /\ verification_count = [u \in Users |-> l[u][1]]
         /\ free_verifications_earned = [u \in Users |-> l[u][2]]
    /\ bills = InitialBills
    /\ verifications = << >>
    /\ worker = [p \in Workers |-> IdleWorker]
    /\ started = 0
    /\ ledger = [ initBalance |-> wallet_balance,
                  initCount   |-> verification_count,
                  initFree    |-> free_verifications_earned,
                  verifyFees  |-> Zero, genFees |-> Zero, topups |-> Zero,
                  settled     |-> Zero, completed |-> Zero, freeUsed |-> Zero ]

Next ==
    \E p \in Workers :
        \/ \E u \in Users \cup {Nil}, n \in VerifyTargets : StartVerify(p, u, n)
        \/ VerifyLookup(p)
        \/ VerifyRecordMiss(p)
        \/ VerifyPrice(p)
        \/ VerifyGetUser(p)
        \/ VerifyDeduct(p)
        \/ VerifyIncrement(p)
        \/ VerifyRecord(p)
        \/ \E u \in Users, req \in CreateRequests : StartCreate(p, u, req)
        \/ CreateGetUser(p)
        \/ CreateNumber(p)
        \/ CreateInsert(p)
        \/ CreateDeduct(p)
        \/ \E u \in Users, a \in TopupAmounts : StartTopup(p, u, a)
        \/ TopupGetUser(p)
        \/ TopupUpdate(p)
        \/ \E u \in Users, id \in DeleteTargets : StartDelete(p, u, id)
        \/ DeleteGet(p)
        \/ DeleteSoft(p)

Spec == Init /\ [][Next]_vars

-----------------------------------------------------------------------------
(* The pricing engine on its own: one call of calculatePrice per behaviour *)

Quiet ==
    /\ wallet_balance = Zero
    /\ verification_count = Zero
    /\ free_verifications_earned = Zero
    /\ bills = InitialBills
    /\ verifications = << >>
    /\ worker = [p \in Workers |-> IdleWorker]
    /\ started = 0
    /\ ledger = [ initBalance |-> Zero, initCount |-> Zero, initFree |-> Zero,
                  verifyFees  |-> Zero, genFees |-> Zero, topups |-> Zero,
                  settled     |-> Zero, completed |-> Zero, freeUsed |-> Zero ]

\* fee bounds in rupees and percentages a deployment may configure
PriceConfigs ==
    { [DefaultPricing EXCEPT !.VerificationMinFee = Rupees(b[1]),
                             !.VerificationMaxFee = Rupees(b[2]),
                             !.VerificationPercentage = pct] :
         b \in {<<1, 10>>, <<1, 1>>, <<2, 5>>, <<5, 6>>},
         pct \in {DefaultVerificationPercentage, 3} }

\* bill amounts: every multiple of 200 rupees up to the bound, one paisa below
\* and above it, the smallest amount, and the amounts of the worked examples
PriceAmounts ==
    {Rupees(200 * k) + Paise(d) : k \in 1..MaxAmountSteps, d \in {-1, 0, 1}}
        \cup {Paise(1), Rupees(1000), Rupees(10000)}

InitPrice ==
    /\ fin \in [fn : {"calculatePrice"}, fve : 0..2, billAmount : PriceAmounts,
                accessLevel : AccessLevels]
    /\ fout = NoCall
    /\ cfg \in PriceConfigs
    /\ Quiet

PriceCall ==
    /\ fin.fn = "calculatePrice"
    /\ fout = NoCall
    /\ fout' = [fn |-> "calculatePrice",
                price |-> calculatePrice(cfg, fin.fve, fin.billAmount, fin.accessLevel)]
    /\ UNCHANGED <<cfg, dbvars, worker, started, ledger, fin>>

NextPrice == PriceCall

SpecPrice == InitPrice /\ [][NextPrice]_vars

-----------------------------------------------------------------------------
(* The access resolver on its own: one call of determineAccessLevel, and the *)
(* response built from its result, per behaviour                             *)

AccessBills ==
    { NewBill("u1", [BillType |-> "sales_invoice", AccessLevel |-> t,
                     IssuerGSTIN |-> "29ABCDE1234F1Z5", Amount |-> a,
                     BillData |-> d], <<"INV", 1>>, 0) :
        t \in AccessLevels, a \in {Rupees(100), Rupees(1000)},
        d \in {PayloadA, PayloadB} }

InitAccess ==
    /\ fin \in [fn : {"determineAccessLevel"}, userRole : UserRoles, billID : {1}]
    /\ fout = NoCall
    /\ cfg = DefaultPricing
    /\ wallet_balance = Zero
    /\ verification_count = Zero
    /\ free_verifications_earned = Zero
    /\ \E b \in AccessBills : bills = <<b>>
    /\ verifications = << >>
    /\ worker = [p \in Workers |-> IdleWorker]
    /\ started = 0
    /\ ledger = [ initBalance |-> Zero, initCount |-> Zero, initFree |-> Zero,
                  verifyFees  |-> Zero, genFees |-> Zero, topups |-> Zero,
                  settled     |-> Zero, completed |-> Zero, freeUsed |-> Zero ]

AccessCall ==
    /\ fin.fn = "determineAccessLevel"
    /\ fout = NoCall
    /\ LET level == determineAccessLevel(fin.userRole, bills[fin.billID])
       IN fout' = [fn |-> "determineAccessLevel", level |-> level,
                   response |-> buildVerificationResponse(bills[fin.billID], level, 0)]
    /\ UNCHANGED <<cfg, dbvars, worker, started, ledger, fin>>

NextAccess == AccessCall

SpecAccess == InitAccess /\ [][NextAccess]_vars

-----------------------------------------------------------------------------
(* The read endpoints of BillHandler, one call per behaviour, against a     *)
(* table holding one bill                                                   *)

canAccessBill(userID, userRole, bill) ==
    \/ bill.IssuerID = userID
    \/ userRole = RoleMasterAdmin
    \/ bill.AccessLevel = AccessLevelPublic
    \/ /\ bill.AccessLevel = AccessLevelRestricted
       /\ userRole \in {RoleInstitutionUser, RoleInstitutionAdmin, RoleVerifier}
    \/ /\ bill.AccessLevel = AccessLevelGovernment
       /\ userRole = RoleVerifier
    \/ /\ bill.AccessLevel = AccessLevelFinancial
       /\ userRole = RoleVerifier

\* BillData is omitted (omitempty) unless the access level is full
ConvertToResponse(bill, accessLevel) ==
    [ BillNumber  |-> bill.BillNumber,
      BillType    |-> bill.BillType,
      AccessLevel |-> bill.AccessLevel,
      IssuerName  |-> bill.IssuerName,
      Amount      |-> bill.Amount,
      Currency    |-> bill.Currency,
      DataHash    |-> bill.DataHash,
      BillData    |-> IF accessLevel = "full" THEN JsonUnmarshal(bill.BillData)
                      ELSE << >> ]

\* GET /api/v1/bills/:id
GetBill(tbl, userID, role, billID) ==
    LET hits == GetByID(tbl, billID) IN
    IF hits = {} THEN Err("bill not found")
    ELSE LET bill == tbl[CHOOSE i \in hits : TRUE] IN
         IF ~canAccessBill(userID, role, bill)
         THEN Err("access denied to this bill")
         ELSE Ok(ConvertToResponse(bill,
                    IF bill.IssuerID # userID /\ role # RoleMasterAdmin
                    THEN "limited" ELSE "full"))

\* GET /api/v1/bills/number/:bill_number
GetBillByNumber(tbl, billNumber) ==
    LET hits == GetByBillNumber(tbl, billNumber) IN
    IF hits = {} THEN Err("Bill not found")
    ELSE Ok(ConvertToResponse(tbl[CHOOSE i \in hits : TRUE], "full"))

InitRead ==
    /\ fin \in [fn : {"GetBill", "GetBillByNumber"}, userID : Users,
                role : UserRoles, billID : {1}, billNumber : {<<"INV", 1>>}]
    /\ fout = NoCall
    /\ cfg = DefaultPricing
    /\ wallet_balance = Zero
    /\ verification_count = Zero
    /\ free_verifications_earned = Zero
    /\ \E b \in AccessBills : bills = <<b>>
    /\ verifications = << >>
    /\ worker = [p \in Workers |-> IdleWorker]
    /\ started = 0
    /\ ledger = [ initBalance |-> Zero, initCount |-> Zero, initFree |-> Zero,
                  verifyFees  |-> Zero, genFees |-> Zero, topups |-> Zero,
                  settled     |-> Zero, completed |-> Zero, freeUsed |-> Zero ]

GetBillCall ==
    /\ fin.fn = "GetBill"
    /\ fout = NoCall
    /\ fout' = [fn |-> "GetBill",
                result |-> GetBill(bills, fin.userID, fin.role, fin.billID)]
    /\ UNCHANGED <<cfg, dbvars, worker, started, ledger, fin>>

GetBillByNumberCall ==
    /\ fin.fn = "GetBillByNumber"
    /\ fout = NoCall
    /\ fout' = [fn |-> "GetBillByNumber",
                result |-> GetBillByNumber(bills, fin.billNumber)]
    /\ UNCHANGED <<cfg, dbvars, worker, started, ledger, fin>>

NextRead == GetBillCall \/ GetBillByNumberCall

SpecRead == InitRead /\ [][NextRead]_vars

-----------------------------------------------------------------------------
(* The content hasher on its own: two documents are hashed, then the first  *)
(* is hashed again and verified against its digest. A document arrives as   *)
(* JSON text, whose members come in the order the sender wrote them.        *)

Reverse(s) == [i \in 1..Len(s) |-> s[Len(s) + 1 - i]]

\* the orderings of the members of a text
Orderings(s) ==
    {[i \in 1..Len(s) |-> s[f[i]]] : f \in Permutations(1..Len(s))}

HashTexts ==
    UNION { Orderings(<< <<"recipient_name", r>>, <<"line_items", l>>,
                         <<"_metadata", m>> >>) :
              r \in {"Asha", "Binu"},
              l \in {<<"consulting", "travel">>, <<"travel", "consulting">>},
              m \in Orderings(<< <<"gstin", "29ABCDE1234F1Z5">>,
                                 <<"organization", "Acme Clinic">> >>) }

MapOrders == {KeyOrder, Reverse(KeyOrder)}

InitHash ==
    /\ fin \in [fn : {"GenerateBillHash"}, doc1 : HashTexts, doc2 : HashTexts,
                order : MapOrders]
    /\ fout = NoCall
    /\ cfg = DefaultPricing
    /\ Quiet

HashCall ==
    /\ fin.fn = "GenerateBillHash"
    /\ fout = NoCall
    /\ fout' = [fn |-> "GenerateBillHash",
                h1 |-> GenerateBillHash(JsonUnmarshal(fin.doc1)),
                h2 |-> GenerateBillHash(JsonUnmarshal(fin.doc2))]
    /\ \E o \in MapOrders : fin' = [fin EXCEPT !.order = o]
    /\ UNCHANGED <<cfg, dbvars, worker, started, ledger>>

HashVerifyCall ==
    /\ fout.fn = "GenerateBillHash"
    /\ fout' = [fn |-> "VerifyBillHash", h1 |-> fout.h1, h2 |-> fout.h2,
                again |-> GenerateBillHash(JsonUnmarshal(fin.doc1)),
                ok |-> VerifyBillHash(JsonUnmarshal(fin.doc1), fout.h1)]
    /\ UNCHANGED <<cfg, dbvars, worker, started, ledger, fin>>

NextHash == HashCall \/ HashVerifyCall

SpecHash == InitHash /\ [][NextHash]_vars

-----------------------------------------------------------------------------
(* Properties *)

AllDone == \A p \in Workers : worker[p].pc \in {"idle", "done"}

\* a verification that found its bill and has passed the step named by pcs
VerifyAt(p, pcs) ==
    /\ worker[p].op = "verify"
    /\ worker[p].pc \in pcs
    /\ worker[p].accessLevel # ""

OnlyVerifications(u) ==
    /\ ledger.topups[u] = 0
    /\ ledger.genFees[u] = 0
    /\ \A p \in Workers : worker[p].userID = u => worker[p].op \in {"none", "verify"}

\* C1: once all requests have ended, a user whose wallet was written by
\* verifications only holds the initial balance minus the fees of the
\* verifications that were settled (not rejected, debit written).
C1_SettlementsAddUp ==
    AllDone =>
        \A u \in Users :
            OnlyVerifications(u) =>
                wallet_balance[u] = ledger.initBalance[u] - ledger.verifyFees[u]

\* C2: no user's wallet balance is ever negative, under every interleaving of
\* VerifyBill, CreateBill and TopupWallet.
C2_BalanceNonNegative == \A u \in Users : wallet_balance[u] >= 0

\* C2 witness: a debit has brought a wallet to exactly zero while a second
\* request of the same user is still in flight.
C2_Witness ==
    \E p, q \in Workers :
        /\ p # q
        /\ worker[p].pc = "done" /\ worker[p].op = "verify"
        /\ worker[p].result.kind = "ok" /\ worker[p].fee > 0
        /\ worker[q].userID = worker[p].userID
        /\ worker[q].pc \in {"v_deduct", "c_deduct", "t_update"}
        /\ worker[p].userID # Nil
        /\ wallet_balance[worker[p].userID] = 0

\* C3: the details of a finished verification are the whole stored payload at
\* level full, exactly amount and currency (the bill's columns) at level
\* limited, and absent at level none, where the status is restricted.
C3_DetailsWithinLevel ==
    \A p \in Workers :
        (VerifyAt(p, {"done"}) /\ worker[p].result.kind = "ok") =>
            LET w == worker[p]
                resp == w.result.response
                stored == bills[w.bill.ID]
            IN /\ w.accessLevel \in {"full", "limited", "none"}
               /\ w.accessLevel = "full" => JsonMarshal(resp.Details) = stored.BillData
               /\ w.accessLevel = "limited" =>
                    /\ DOMAIN resp.Details = {"amount", "currency"}
                    /\ resp.Details["amount"] = stored.Amount
                    /\ resp.Details["currency"] = stored.Currency
               /\ w.accessLevel = "none" =>
                    /\ DOMAIN resp.Details = {}
                    /\ resp.Status = "restricted"

\* C3 witness: a limited response for a bill whose stored payload has fields
\* other than amount and currency.
C3_Witness ==
    \E p \in Workers :
        /\ VerifyAt(p, {"done"})
        /\ worker[p].result.kind = "ok"
        /\ worker[p].accessLevel = "limited"
        /\ "recipient_name" \in DOMAIN JsonUnmarshal(bills[worker[p].bill.ID].BillData)
        /\ DOMAIN worker[p].result.response.Details = {"amount", "currency"}

\* the decision table of the access resolver, tier by role
AccessTable ==
    [ public     |-> [ public |-> "full", institution_user |-> "full",
                       institution_admin |-> "full", verifier |-> "full",
                       master_admin |-> "full" ],
      restricted |-> [ public |-> "limited", institution_user |-> "full",
                       institution_admin |-> "full", verifier |-> "full",
                       master_admin |-> "full" ],
      government |-> [ public |-> "none", institution_user |-> "none",
                       institution_admin |-> "none", verifier |-> "full",
                       master_admin |-> "full" ],
      financial  |-> [ public |-> "none", institution_user |-> "none",
                       institution_admin |-> "none", verifier |-> "full",
                       master_admin |-> "full" ] ]

\* C4: for each of the 4 tiers and 5 roles the resolver returns the entry of
\* the decision table.
C4_AccessTable ==
    fout.fn = "determineAccessLevel" =>
        fout.level = AccessTable[bills[fin.billID].AccessLevel][fin.userRole]

\* C4 witness: master_admin resolving a government bill to full.
C4_Witness ==
    /\ fout.fn = "determineAccessLevel"
    /\ fin.userRole = RoleMasterAdmin
    /\ bills[fin.billID].AccessLevel = AccessLevelGovernment
    /\ fout.level = "full"

\* C5: a requester who is the issuer of the bill resolves to full, whatever
\* the tier and the role.
C5_IssuerGetsFull ==
    \A p \in Workers :
        (VerifyAt(p, {"v_price", "v_getuser", "v_deduct", "v_incr", "v_record", "done"})
            /\ worker[p].userID = worker[p].bill.IssuerID)
        => worker[p].accessLevel = "full"

\* C6: the fee is between 0 and maxFee; it is 0 only when the loyalty credit
\* is applied, and between minFee and maxFee otherwise.
C6_FeeInBand ==
    fout.fn = "calculatePrice" =>
        LET fee == fout.price.fee IN
        /\ 0 <= fee /\ fee <= cfg.VerificationMaxFee
        /\ fee = 0 => (fin.fve > 0 /\ fout.price.wasFree)
        /\ fin.fve = 0 => (cfg.VerificationMinFee <= fee /\ ~fout.price.wasFree)

\* C6 witness: a restricted bill whose premium of one half would pass maxFee
\* is priced at maxFee.
C6_Witness ==
    /\ fout.fn = "calculatePrice"
    /\ fin.fve = 0
    /\ fin.accessLevel = AccessLevelRestricted
    /\ fin.billAmount * cfg.VerificationPercentage * 3 > 400 * cfg.VerificationMaxFee
    /\ fout.price.fee = cfg.VerificationMaxFee

MinOf(a, b) == IF a < b THEN a ELSE b
MaxOf(a, b) == IF a < b THEN b ELSE a

\* the reference procedure of the pricing engine, without loyalty credit
ReferencePrice(c, billAmount, tier) ==
    LET twice == billAmount * c.VerificationPercentage
        \* twice = 200 * base
        base == twice \div 200
        band == MaxOf(c.VerificationMinFee, MinOf(c.VerificationMaxFee, base))
    IN CASE tier = "public" ->
              [ fee  |-> band,
                rule |-> IF twice < 200 * c.VerificationMinFee THEN "minimum_fee"
                         ELSE IF twice > 200 * c.VerificationMaxFee
                              THEN "maximum_fee_capped"
                         ELSE "percentage_1_percent" ]
         [] tier = "restricted" ->
              [ fee  |-> MinOf(c.VerificationMaxFee, band + band \div 2),
                rule |-> "restricted_access_premium" ]
         [] tier \in {"government", "financial"} ->
              [ fee  |-> c.VerificationMaxFee,
                rule |-> "government_financial_premium" ]

\* C7: with no loyalty credit the price and its label are those of the
\* reference procedure for every amount and tier; at the default
\* configuration a public bill of 1000 costs 5 and a restricted bill of
\* 10000 costs 10.
C7_PriceMatchesReference ==
    (fout.fn = "calculatePrice" /\ fin.fve = 0) =>
        /\ fout.price.fee = ReferencePrice(cfg, fin.billAmount, fin.accessLevel).fee
        /\ fout.price.rule = ReferencePrice(cfg, fin.billAmount, fin.accessLevel).rule
        /\ ~fout.price.wasFree
        /\ (cfg = DefaultPricing /\ fin.accessLevel = "public"
              /\ fin.billAmount = Rupees(1000))
           => (fout.price.fee = Rupees(5) /\ fout.price.rule = "percentage_1_percent")
        /\ (cfg = DefaultPricing /\ fin.accessLevel = "restricted"
              /\ fin.billAmount = Rupees(10000))
           => (fout.price.fee = Rupees(10)
                 /\ fout.price.rule = "restricted_access_premium")

\* C7 witness: a public bill whose base is exactly minFee, priced at it by
\* the percentage rule.
C7_Witness ==
    /\ fout.fn = "calculatePrice"
    /\ fin.fve = 0
    /\ fin.accessLevel = "public"
    /\ fin.billAmount * cfg.VerificationPercentage = 200 * cfg.VerificationMinFee
    /\ cfg.VerificationMinFee < cfg.VerificationMaxFee
    /\ fout.price.fee = cfg.VerificationMinFee
    /\ fout.price.rule = "percentage_1_percent"

\* C8: in every step free_verifications_earned of a user grows by one if the
\* step makes verification_count a multiple of the configured loyalty
\* interval, and is unchanged otherwise.
C8_CreditAtConfiguredInterval ==
    [][ \A u \in Users :
          free_verifications_earned'[u] =
              free_verifications_earned[u]
                + (IF verification_count'[u] # verification_count[u]
                      /\ verification_count'[u] % cfg.LoyaltyFreeEveryN = 0
                   THEN 1 ELSE 0) ]_vars

\* C9: once all requests have ended, verification_count of a user has grown
\* by the number of that user's completed authenticated verifications.
C9_CountIsCompletedVerifications ==
    AllDone =>
        \A u \in Users :
            verification_count[u] - ledger.initCount[u] = ledger.completed[u]

\* C10: when the only request of a behaviour was a verification priced free
\* by a loyalty credit, the requester has one credit less than at the start.
C10_CreditConsumed ==
    \A p \in Workers :
        (started = 1 /\ VerifyAt(p, {"done"}) /\ worker[p].wasFree
            /\ worker[p].result.kind = "ok")
        => free_verifications_earned[worker[p].userID]
              = ledger.initFree[worker[p].userID] - 1

\* a verification by an authenticated requester that found its bill, was not
\* priced free and has read the requester's balance
Charged(p) ==
    /\ VerifyAt(p, {"v_deduct", "v_incr", "v_record", "done"})
    /\ worker[p].userID # Nil
    /\ ~worker[p].wasFree
    /\ worker[p].result.error # "failed to get user"

InsufficientBalance(p) == worker[p].result.error = "insufficient wallet balance"

\* the database as it was when the behaviour started
Untouched ==
    /\ wallet_balance = ledger.initBalance
    /\ verification_count = ledger.initCount
    /\ free_verifications_earned = ledger.initFree
    /\ verifications = << >>

\* C11: a verification that is charged fails with the insufficient-balance
\* error exactly when the balance it read minus the fee is negative; a failed
\* call has written nothing and has not called the recorder (so a behaviour
\* with this call alone leaves balance, count, credits and records as they
\* were), and a balance equal to the fee is accepted and leaves 0.
C11_InsufficientBalance ==
    \A p \in Workers :
        Charged(p) =>
            LET w == worker[p] IN
            /\ InsufficientBalance(p) <=> w.balance - w.fee < 0
            /\ InsufficientBalance(p) =>
                  /\ w.pc = "done" /\ w.result.kind = "error"
                  /\ w.wrote = {} /\ w.recorderCalls = 0
                  /\ started = 1 => Untouched
            /\ (w.balance = w.fee /\ "wallet" \in w.wrote /\ started = 1)
                  => wallet_balance[w.userID] = 0

\* C11 witness: a call turned away with a balance that is positive but
\* smaller than the fee.
C11_Witness ==
    \E p \in Workers :
        /\ Charged(p) /\ InsufficientBalance(p)
        /\ worker[p].balance > 0
        /\ worker[p].balance < worker[p].fee

\* C12: settlement is all or nothing: a verification call that has ended has
\* either written the debit and the count increment (with the loyalty credit
\* when the count reached a multiple of ten), or neither.
C12_SettlementAtomic ==
    \A p \in Workers :
        (worker[p].op = "verify" /\ worker[p].pc = "done") =>
            ("wallet" \in worker[p].wrote <=> "count" \in worker[p].wrote)

\* C13: verification records are append-only: every step of the system keeps
\* each existing record, at its place and with the field values it was
\* inserted with, and never shortens the table.
C13_RecordsAppendOnly ==
    [][ /\ Len(verifications') >= Len(verifications)
        /\ \A i \in 1..Len(verifications) : verifications'[i] = verifications[i] ]_vars

\* C13 witness: a bill has been deleted while a verification record refers
\* to it, and the record is still in the table.
C13_Witness ==
    \E i \in 1..Len(verifications) :
        /\ verifications[i].BillID \in DOMAIN bills
        /\ bills[verifications[i].BillID].IsDeleted

\* C14: a verification call that found its bill and returned a response has
\* called the recorder exactly once, whether it was paid, free by loyalty or
\* anonymous.
C14_RecorderOncePerFoundCall ==
    \A p \in Workers :
        (VerifyAt(p, {"done"}) /\ worker[p].result.kind = "ok") =>
            worker[p].recorderCalls = 1

\* a verification call that has ended and whose lookup found no row
Missed(p) ==
    /\ worker[p].op = "verify"
    /\ worker[p].pc = "done"
    /\ worker[p].lookup = "absent"

\* C15 (as claimed): when the bill number is not found the call succeeds with
\* status not_found and the configured minimum fee, for anonymous and
\* authenticated callers alike.
C15_MissStatusNotFound ==
    \A p \in Workers :
        Missed(p) =>
            /\ worker[p].result.kind = "ok"
            /\ worker[p].result.response.Status = "not_found"
            /\ worker[p].result.response.Fee = cfg.VerificationMinFee

\* C15 (amended): when the bill number is not found the call succeeds with
\* status invalid and the configured minimum fee, for anonymous and
\* authenticated callers alike.
C15_MissStatusInvalid ==
    \A p \in Workers :
        Missed(p) =>
            /\ worker[p].result.kind = "ok"
            /\ worker[p].result.response.Success
            /\ worker[p].result.response.Status = "invalid"
            /\ worker[p].result.response.Fee = cfg.VerificationMinFee
            /\ worker[p].result.response.BillNumber = worker[p].billNumber

\* C15 witness: an anonymous and an authenticated caller have both looked up
\* a number that is not registered.
C15_Witness ==
    \E p, q \in Workers :
        /\ Missed(p) /\ worker[p].userID = Nil
        /\ Missed(q) /\ worker[q].userID # Nil

C18_MissFeeCharged ==
    \A p \in Workers :
        (started = 1 /\ Missed(p)) =>
            wallet_balance =
                IF worker[p].userID # Nil
                THEN Bump(ledger.initBalance, worker[p].userID, -cfg.VerificationMinFee)
                ELSE ledger.initBalance

\* a verification call that settled, called the recorder and whose insert of
\* the audit row failed
RecorderFailed(p) ==
    /\ VerifyAt(p, {"done"})
    /\ "wallet" \in worker[p].wrote
    /\ worker[p].recorderCalls = 1
    /\ "record" \notin worker[p].wrote

\* C19: a call whose audit insert failed after a successful debit still
\* returns the computed response without error, and the debit and the
\* counter update stay: a behaviour with this call alone holds the initial
\* balance minus the fee, and the count one higher when the increment was
\* written.
C19_RecorderFailureKeepsSettlement ==
    \A p \in Workers :
        RecorderFailed(p) =>
            LET w == worker[p] IN
            /\ w.result.kind = "ok"
            /\ w.result.response.Fee = w.fee
            /\ w.result.response.BillNumber = w.billNumber
            /\ started = 1 =>
                  /\ wallet_balance = Bump(ledger.initBalance, w.userID, -w.fee)
                  /\ verification_count =
                        Bump(ledger.initCount, w.userID,
                             IF "count" \in w.wrote THEN 1 ELSE 0)
                  /\ verifications = << >>

\* C19 witness: a settled call (debit and count written) has ended with its
\* audit insert failed.
C19_Witness ==
    \E p \in Workers :
        /\ RecorderFailed(p)
        /\ "count" \in worker[p].wrote
        /\ worker[p].fee > 0
        /\ started = 1

\* C20: a verification whose bill lookup failed for a reason other than
\* absence ends in an error: it reports no response (so does not report the
\* bill as not registered) and calls no recorder.
C20_LookupFailureSurfaced ==
    \A p \in Workers :
        (worker[p].op = "verify" /\ worker[p].lookup = "failed") =>
            /\ worker[p].pc = "done"
            /\ worker[p].result.kind = "error"
            /\ worker[p].recorderCalls = 0

\* C21: once all requests have ended, a user who generated at least one bill
\* and received no top-up holds the initial balance minus the fees of all
\* the calls (bill generations and verifications) whose debit succeeded.
C21_GenerationDebitsAddUp ==
    AllDone =>
        \A u \in Users :
            (ledger.topups[u] = 0 /\ ledger.genFees[u] > 0) =>
                wallet_balance[u] =
                    ledger.initBalance[u] - ledger.verifyFees[u] - ledger.genFees[u]

\* C29: once all requests have ended, a user whose wallet was written by a
\* top-up of amount a and a settled verification of fee f, and by nothing
\* else, holds the initial balance plus a minus f.
C29_TopupAndDebitBothKept ==
    AllDone =>
        \A u \in Users :
            (ledger.topups[u] > 0 /\ ledger.verifyFees[u] > 0
                /\ ledger.genFees[u] = 0) =>
                wallet_balance[u] =
                    ledger.initBalance[u] + ledger.topups[u] - ledger.verifyFees[u]

\* the effect of the call of worker p on its requester's row
OwnDebit(p) == IF "wallet" \in worker[p].wrote THEN worker[p].fee ELSE 0
OwnCount(p) == IF "count" \in worker[p].wrote THEN 1 ELSE 0
OwnCredit(p) == IF "credit" \in worker[p].wrote THEN 1 ELSE 0

\* C22: a step of a verification call leaves the wallet balance, the
\* verification count and the loyalty credits of every user other than its
\* requester unchanged, and when two verification calls by two different
\* users are the only calls made, in any interleaving, each user's row is
\* what that user's call alone makes of the initial row.
C22_UsersIndependent ==
    /\ [][ \A p \in Workers :
              (worker'[p] # worker[p] /\ worker'[p].op = "verify") =>
                  \A u \in Users \ {worker'[p].userID} :
                      /\ wallet_balance'[u] = wallet_balance[u]
                      /\ verification_count'[u] = verification_count[u]
                      /\ free_verifications_earned'[u] = free_verifications_earned[u]
          ]_vars
    /\ [](\A p, q \in Workers :
              (/\ worker[p].op = "verify" /\ worker[q].op = "verify"
               /\ worker[p].userID \in Users /\ worker[q].userID \in Users
               /\ worker[p].userID # worker[q].userID
               /\ started = 2) =>
                  LET u == worker[p].userID IN
                  /\ wallet_balance[u] = ledger.initBalance[u] - OwnDebit(p)
                  /\ verification_count[u] = ledger.initCount[u] + OwnCount(p)
                  /\ free_verifications_earned[u] = ledger.initFree[u] + OwnCredit(p))

\* C22 witness: two users have each settled a paid verification, and one of
\* them earned a credit with it.
C22_Witness ==
    \E p, q \in Workers :
        /\ worker[p].op = "verify" /\ worker[q].op = "verify"
        /\ worker[p].userID \in Users /\ worker[q].userID \in Users
        /\ worker[p].userID # worker[q].userID
        /\ worker[p].pc = "done" /\ worker[q].pc = "done"
        /\ {"wallet", "count", "credit"} \subseteq worker[p].wrote
        /\ {"wallet", "count"} \subseteq worker[q].wrote

\* C23: bill numbers are unique and assigned in increasing order per prefix:
\* the stored bills have pairwise different numbers, a bill stored later has
\* a larger sequence than every earlier bill of its prefix (deleted ones
\* included), and two CreateBill calls that both hold a generated number
\* they have not inserted yet hold different numbers.
C23_BillNumbersUnique ==
    /\ \A i, j \in DOMAIN bills :
          i < j =>
             /\ bills[i].BillNumber # bills[j].BillNumber
             /\ bills[i].BillNumber[1] = bills[j].BillNumber[1]
                   => bills[i].BillNumber[2] < bills[j].BillNumber[2]
    /\ \A p, q \in Workers :
          (p # q /\ worker[p].op = "create" /\ worker[q].op = "create"
               /\ worker[p].pc = "c_insert" /\ worker[q].pc = "c_insert")
          => worker[p].billNumber # worker[q].billNumber

\* a CreateBill call that has built its bill object
Built(p) ==
    /\ worker[p].op = "create"
    /\ worker[p].pc \in {"c_insert", "c_deduct", "done"}
    /\ worker[p].bill # NoBill

\* C24: two CreateBill calls submitting the same payload (same issuer, same
\* request) compute the same content hash.
C24_HashDeterministic ==
    \A p, q \in Workers :
        (Built(p) /\ Built(q) /\ worker[p].userID = worker[q].userID
            /\ worker[p].req = worker[q].req)
        => worker[p].bill.DataHash = worker[q].bill.DataHash

\* C25: two documents that are equal as trees with unordered keys (arrays
\* keeping their order) get the same digest, hashing a document again gives
\* the digest it got before, and VerifyBillHash accepts a document with the
\* digest GenerateBillHash gave it.
C25_HashIgnoresKeyOrder ==
    /\ fout.fn \in {"GenerateBillHash", "VerifyBillHash"} =>
          (JsonUnmarshal(fin.doc1) = JsonUnmarshal(fin.doc2) => fout.h1 = fout.h2)
    /\ fout.fn = "VerifyBillHash" =>
          /\ fout.again = fout.h1
          /\ fout.ok

\* C25 witness: two texts of one document whose members, at the top and
\* inside _metadata, come in different orders, hashed to one digest while
\* the runtime's iteration order changed between the calls.
C25_Witness ==
    /\ fout.fn = "VerifyBillHash"
    /\ fin.doc1 # fin.doc2
    /\ fin.doc1[1][1] # fin.doc2[1][1]
    /\ JsonUnmarshal(fin.doc1) = JsonUnmarshal(fin.doc2)
    /\ \E i, j \in 1..3 :
          /\ fin.doc1[i][1] = "_metadata" /\ fin.doc2[j][1] = "_metadata"
          /\ fin.doc1[i][2] # fin.doc2[j][2]
    /\ fin.order = Reverse(KeyOrder)
    /\ fout.h1 = fout.h2 /\ fout.ok

\* C26: the record a verification call wrote for a found bill carries the
\* pricing outcome of that call: the fee as amount charged, the was-free
\* flag, and the label calculatePrice returned.
C26_RecordCarriesPricing ==
    \A p \in Workers :
        (VerifyAt(p, {"done"}) /\ "record" \in worker[p].wrote) =>
            LET row == verifications[worker[p].recordAt] IN
            /\ row.AmountCharged = worker[p].fee
            /\ row.WasFree = worker[p].wasFree
            /\ row.PricingRuleApplied = worker[p].rule

\* a verification by a user that found its bill and has been priced
Priced(p) ==
    /\ VerifyAt(p, {"v_getuser", "v_deduct", "v_incr", "v_record", "done"})
    /\ worker[p].userID \in Users

PricedFree(p) ==
    /\ worker[p].wasFree
    /\ worker[p].fee = 0
    /\ worker[p].rule = "loyalty_free"
    /\ worker[p].wrote \cap {"wallet", "count", "credit"} = {}
    /\ OnlyVerifications(worker[p].userID) /\ started = 1
          => wallet_balance[worker[p].userID] = ledger.initBalance[worker[p].userID]

\* C27: no user's loyalty credits ever go below what they were,
\* and every verification of a found bill by a user who held a credit before
\* the call is priced (0, free, loyalty_free) and writes no wallet balance.
C27_FreeForever ==
    /\ \A u \in Users : free_verifications_earned[u] >= ledger.initFree[u]
    /\ \A p \in Workers :
          (Priced(p) /\ ledger.initFree[worker[p].userID] > 0) => PricedFree(p)

\* C28: for a user whose counters stand where a sequence of verifications
\* from <<0, 0>> has brought them (count at most 10, credits at most 1), one
\* more verification call of that user, run on its own, leaves the
\* verification count at most 10 and the credits at most 1.
C28_LoyaltyCounterCapped ==
    \A u \in Users :
        (started <= 1 /\ OnlyVerifications(u)
            /\ ledger.initCount[u] <= 10 /\ ledger.initFree[u] <= 1
            /\ (ledger.initFree[u] = 1 <=> ledger.initCount[u] = 10))
        => /\ verification_count[u] <= 10
           /\ free_verifications_earned[u] <= 1

\* C30: a successful GET of a bill by id or by number returns no stored
\* payload to a requester who is neither the bill's issuer nor master_admin
\* and for whom the access table resolves to limited or none.
C30_ReadsWithinAccessTable ==
    (fout.fn \in {"GetBill", "GetBillByNumber"} /\ fout.result.kind = "ok") =>
        LET bill == bills[1] IN
        (/\ bill.IssuerID # fin.userID
         /\ fin.role # RoleMasterAdmin
         /\ determineAccessLevel(fin.role, bill) \in {"limited", "none"})
        => fout.result.response.BillData = << >>

====
